---- MODULE Spec2Model ----
(***************************************************************************)
(* Model of location_tracker.py: one top-to-bottom run of the dashboard     *)
(* script (load both floors, latest tag position, floor tag viewer with     *)
(* filtering and fade effect), its catch-all error display, and the remote  *)
(* sheets the script reads.                                                 *)
(*                                                                          *)
(* A DataFrame is a sequence of rows; a row is a function from column name  *)
(* to cell.  A missing cell of the CSV is the empty string; after parsing,  *)
(* NaN / NaT is the number NaN.                                             *)
(*                                                                          *)
(* sort_values is called with its default kind, "quicksort", which is not   *)
(* stable: the model lets it return every order of rows with equal          *)
(* timestamps.  read_csv returns what the sheet publishes at that moment,   *)
(* or fails.  The streamlit and plotly calls show their element and do not  *)
(* raise.  Every sheet has the columns Tag, X, Y and Timestamp.             *)
(***************************************************************************)
EXTENDS Integers, Sequences, FiniteSets, TLC

VARIABLES
    sheet,         \* remote content: sheet name -> rows currently published
    pc,            \* position of the script
    fetched,       \* read_csv calls of this run, in order
    df_2nd,        \* line 33
    df_3rd,        \* line 34
    df_all,        \* line 35
    latest,        \* line 38
    floor_choice,  \* line 92
    df,            \* line 93
    tag_choice,    \* line 96
    limit_choice,  \* line 99
    df_filtered,   \* lines 103-118, 165
    rendered       \* elements shown on the page in this run, in order

vars == <<sheet, pc, fetched, df_2nd, df_3rd, df_all, latest, floor_choice, df,
          tag_choice, limit_choice, df_filtered, rendered>>

----------------------------------------------------------------------------
(* Bounds of the model *)

\* rows published over both sheets together, full runs
MaxRows == 2
\* rows of a sheet, row sanitizer inputs
MaxRawRows == 2
\* rows of the 2nd-floor sheet, filter and fade inputs
MaxViewRows == 3
\* largest numeric limit handed to the filter on bounded data
MaxLimit == 2

----------------------------------------------------------------------------
(* Cells and parsing *)

\* a missing value after parsing (NaN of to_numeric, NaT of to_datetime)
NaN == -1

\* the limit option "All" (the other options are numbers)
LimitAll == 0

CSV_URLS == {"2nd", "3rd"}

limit_options == {50, 100, 250, LimitAll}

\* pd.to_numeric(..., errors="coerce") on one cell
to_numeric(c) ==
    CASE c = "5" -> 5
      [] c = "10" -> 10
      [] c = "12" -> 12
      [] OTHER -> NaN

\* pd.to_datetime(..., errors="coerce") on one cell: minutes of the day
to_datetime(c) ==
    CASE c = "2024-01-01 10:00" -> 600
      [] c = "2024-01-01 11:00" -> 660
      [] c = "2024-01-01 12:00" -> 720
      [] OTHER -> NaN

\* df.dropna(subset=...): rows with no missing cell (na) in the columns
dropna(frame, subset, na) ==
    SelectSeq(frame, LAMBDA r : \A c \in subset : r[c] # na)

\* df[col] = values: the column set (or added), row by row
assign(frame, col, values) ==
    [i \in DOMAIN frame |-> (col :> values[i]) @@ frame[i]]

\* load_data with Y left out of the final dropna
load_data_keeps_bad_Y(rows, sheet_name) ==
    LET d1 == dropna(rows, {"Timestamp"}, "")
        d2 == assign(d1, "X", [i \in DOMAIN d1 |-> to_numeric(d1[i].X)])
        d3 == assign(d2, "Y", [i \in DOMAIN d2 |-> to_numeric(d2[i].Y)])
        d4 == assign(d3, "Timestamp",
                     [i \in DOMAIN d3 |-> to_datetime(d3[i].Timestamp)])
        d5 == dropna(d4, {"X", "Timestamp"}, NaN)
    IN  assign(d5, "Floor", [i \in DOMAIN d5 |-> sheet_name])

\* the sanitizing part of load_data, on the rows read_csv returned
load_data(rows, sheet_name) ==
    LET d1 == dropna(rows, {"Timestamp"}, "")
        d2 == assign(d1, "X", [i \in DOMAIN d1 |-> to_numeric(d1[i].X)])
        d3 == assign(d2, "Y", [i \in DOMAIN d2 |-> to_numeric(d2[i].Y)])
        d4 == assign(d3, "Timestamp",
                     [i \in DOMAIN d3 |-> to_datetime(d3[i].Timestamp)])
        d5 == dropna(d4, {"X", "Y", "Timestamp"}, NaN)
    IN  assign(d5, "Floor", [i \in DOMAIN d5 |-> sheet_name])

----------------------------------------------------------------------------
(* Sorting *)

RemoveAt(s, i) == SubSeq(s, 1, i - 1) \o SubSeq(s, i + 1, Len(s))

\* which of the rows that tie on the sort key may come next: the default
\* kind="quicksort" is not stable, any of them may
quicksort_next(ties) == ties

\* df.sort_values("Timestamp", ascending=asc): every order the sort may return
RECURSIVE sort_values(_, _)
sort_values(frame, asc) ==
    IF Len(frame) = 0 THEN {<<>>}
    ELSE LET keys == {frame[i].Timestamp : i \in DOMAIN frame}
             k == CHOOSE t \in keys :
                     \A u \in keys : IF asc THEN t <= u ELSE t >= u
             ties == {i \in DOMAIN frame : frame[i].Timestamp = k}
         IN  UNION {{<<frame[i]>> \o rest :
                        rest \in sort_values(RemoveAt(frame, i), asc)} :
                    i \in quicksort_next(ties)}

\* pd.concat([a, b], ignore_index=True)
concat(a, b) == a \o b

----------------------------------------------------------------------------
(* The run *)

NoRow == [Tag |-> "", X |-> NaN, Y |-> NaN, Timestamp |-> NaN, Floor |-> ""]

\* a fresh run of the script: nothing loaded, nothing shown
RunStart ==
    /\ pc = "load_2nd"
    /\ fetched = <<>>
    /\ df_2nd = <<>>
    /\ df_3rd = <<>>
    /\ df_all = <<>>
    /\ latest = NoRow
    /\ floor_choice = ""
    /\ df = <<>>
    /\ tag_choice = ""
    /\ limit_choice = LimitAll
    /\ df_filtered = <<>>
    /\ rendered = <<>>

\* the descriptions of the exceptions the run can raise
HTTPError == "HTTP Error 404: Not Found"
IndexError == "single positional indexer is out-of-bounds"
TypeError == "'<' not supported between instances of 'float' and 'str'"
ValueError == "No objects to concatenate"

\* st.error(f"Error: {e}")
st_error(e) == "Error: " \o e

\* a handler that shows the error and runs the failing stage again
except_retry(shown, e) ==
    /\ rendered' = Append(rendered \o shown, st_error(e))
    /\ pc' = pc

\* an exception e raised after the stage has shown the elements `shown`:
\* except Exception as e: st.error(...), and the script ends
except_Exception(shown, e) ==
    /\ rendered' = Append(rendered \o shown, st_error(e))
    /\ pc' = "done"

\* read_csv that requests the sheet a second time
read_csv_twice(sheet_name, ok) ==
    LET request == [floor |-> sheet_name, ok |-> ok,
                    rows |-> IF ok THEN sheet[sheet_name] ELSE <<>>]
    IN  fetched' = fetched \o <<request, request>>

\* pd.read_csv(url): the request is logged at the remote; it may fail
read_csv(sheet_name, ok) ==
    fetched' = Append(fetched, [floor |-> sheet_name, ok |-> ok,
                                rows |-> IF ok THEN sheet[sheet_name] ELSE <<>>])

\* line 33: df_2nd = load_data("2nd")
Load2nd ==
    /\ pc = "load_2nd"
    /\ \E ok \in BOOLEAN :
        /\ read_csv("2nd", ok)
        /\ IF ok
           THEN /\ df_2nd' = load_data(sheet["2nd"], "2nd")
                /\ pc' = "load_3rd"
                /\ UNCHANGED rendered
           ELSE /\ except_Exception(<<>>, HTTPError)
                /\ UNCHANGED df_2nd
    /\ UNCHANGED <<sheet, df_3rd, df_all, latest, floor_choice, df, tag_choice,
                   limit_choice, df_filtered>>

\* line 34: df_3rd = load_data("3rd")
Load3rd ==
    /\ pc = "load_3rd"
    /\ \E ok \in BOOLEAN :
        /\ read_csv("3rd", ok)
        /\ IF ok
           THEN /\ df_3rd' = load_data(sheet["3rd"], "3rd")
                /\ pc' = "latest"
                /\ UNCHANGED rendered
           ELSE /\ except_Exception(<<>>, HTTPError)
                /\ UNCHANGED df_3rd
    /\ UNCHANGED <<sheet, df_2nd, df_all, latest, floor_choice, df, tag_choice,
                   limit_choice, df_filtered>>

\* iloc[0] in place of iloc[-1]
iloc_first(frame) == frame[1]

\* lines 35-38: df_all = pd.concat(...); latest = sort_values(...).iloc[-1]
iloc_last(frame) == frame[Len(frame)]

LatestPosition ==
    /\ pc = "latest"
    /\ df_all' = concat(df_2nd, df_3rd)
    /\ IF Len(df_all') = 0
       THEN /\ except_Exception(<<>>, IndexError)
            /\ UNCHANGED latest
       ELSE /\ \E sorted \in sort_values(df_all', TRUE) :
                 latest' = iloc_last(sorted)
            /\ pc' = "show_latest"
            /\ UNCHANGED rendered
    /\ UNCHANGED <<sheet, fetched, df_2nd, df_3rd, floor_choice, df, tag_choice,
                   limit_choice, df_filtered>>

\* lines 40-86: st.title, st.success, st.plotly_chart(fig_latest)
ShowLatest ==
    /\ pc = "show_latest"
    /\ rendered' = rendered \o <<"title", "success", "plotly_chart latest">>
    /\ pc' = "floor_viewer"
    /\ UNCHANGED <<sheet, fetched, df_2nd, df_3rd, df_all, latest, floor_choice,
                   df, tag_choice, limit_choice, df_filtered>>

\* lines 88-93: st.divider, st.header, st.radio, df = load_data(floor_choice)
FloorViewer ==
    /\ pc = "floor_viewer"
    /\ \E choice \in CSV_URLS, ok \in BOOLEAN :
        /\ floor_choice' = choice
        /\ read_csv(choice, ok)
        /\ IF ok
           THEN /\ df' = load_data(sheet[choice], choice)
                /\ rendered' = rendered \o <<"divider", "header", "radio">>
                /\ pc' = "filtering"
           ELSE /\ except_Exception(<<"divider", "header", "radio">>, HTTPError)
                /\ UNCHANGED df
    /\ UNCHANGED <<sheet, df_2nd, df_3rd, df_all, latest, tag_choice,
                   limit_choice, df_filtered>>

----------------------------------------------------------------------------
(* Filtering, lines 95-113 *)

Range(s) == {s[i] : i \in DOMAIN s}

\* df["Tag"].unique().tolist(): the distinct tags in order of first appearance
\* (a missing tag is one value, NaN)
RECURSIVE unique(_)
unique(frame) ==
    IF Len(frame) = 0 THEN <<>>
    ELSE LET before == unique(SubSeq(frame, 1, Len(frame) - 1))
             tag == frame[Len(frame)].Tag
         IN  IF tag \in Range(before) THEN before ELSE Append(before, tag)

\* sorted(...) of the tags compares NaN (a float) with a str: TypeError
sorted_raises(tags) == "" \in Range(tags) /\ Len(tags) >= 2

\* ["All"] + sorted(df["Tag"].unique().tolist())
tag_options(frame) == {"All"} \cup Range(unique(frame))

\* != in place of ==
select_other_tags(frame, tag) ==
    SelectSeq(frame, LAMBDA r : r.Tag # "" /\ r.Tag # tag)

\* df[df["Tag"] == tag]: NaN equals nothing, itself included
select_tag(frame, tag) ==
    SelectSeq(frame, LAMBDA r : r.Tag # "" /\ r.Tag = tag)

\* head(n) in place of tail(n): the first n rows
head(frame, n) ==
    IF n >= Len(frame) THEN frame ELSE SubSeq(frame, 1, n)

\* tail(n): the last n rows
tail(frame, n) ==
    IF n >= Len(frame) THEN frame
    ELSE SubSeq(frame, Len(frame) - n + 1, Len(frame))

\* df[df["Tag"] == tag].sort_values("Timestamp") and the optional tail
tag_view(frame, tag, limit) ==
    {IF limit # LimitAll THEN tail(sorted, limit) ELSE sorted :
        sorted \in sort_values(select_tag(frame, tag), TRUE)}

\* the frames of the loop over df["Tag"].unique(), concatenated
RECURSIVE concat_frames(_, _, _)
concat_frames(frame, tags, limit) ==
    IF Len(tags) = 0 THEN {<<>>}
    ELSE {a \o b : a \in tag_view(frame, Head(tags), limit),
                   b \in concat_frames(frame, Tail(tags), limit)}

\* lines 95-113: the two select boxes and the filtering; limits is what the
\* limit select box offers
Filtering(limits) ==
    /\ pc = "filtering"
    /\ IF sorted_raises(unique(df))
       THEN /\ except_Exception(<<>>, TypeError)
            /\ UNCHANGED <<tag_choice, limit_choice, df_filtered>>
       ELSE \E tag \in tag_options(df), limit \in limits :
              /\ tag_choice' = tag
              /\ limit_choice' = limit
              /\ IF tag # "All"
                 THEN /\ df_filtered' \in tag_view(df, tag, limit)
                      /\ rendered' = rendered \o <<"selectbox tag", "selectbox limit">>
                      /\ pc' = "fade"
                 ELSE IF Len(unique(df)) = 0
                 THEN /\ except_Exception(<<"selectbox tag", "selectbox limit">>, ValueError)
                      /\ UNCHANGED df_filtered
                 ELSE /\ df_filtered' \in concat_frames(df, unique(df), limit)
                      /\ rendered' = rendered \o <<"selectbox tag", "selectbox limit">>
                      /\ pc' = "fade"
    /\ UNCHANGED <<sheet, fetched, df_2nd, df_3rd, df_all, latest, floor_choice, df>>

----------------------------------------------------------------------------
(* Fade effect, lines 116-118 *)

\* groupby("Tag").cumcount(): how many rows of the same tag come before
cumcount(frame) ==
    [i \in DOMAIN frame |->
        Cardinality({j \in 1 .. (i - 1) : frame[j].Tag = frame[i].Tag})]

\* rank(pct=True) over the whole frame, the groupby forgotten
rank_pct_ungrouped(frame) ==
    [i \in DOMAIN frame |->
        LET less == {j \in DOMAIN frame : frame[j].order < frame[i].order}
            same == {j \in DOMAIN frame : frame[j].order = frame[i].order}
        IN  [num |-> 2 * Cardinality(less) + Cardinality(same) + 1,
             den |-> 2 * Len(frame)]]

\* groupby("Tag")["order"].rank(pct=True): the average rank of the row's
\* order among the orders of its tag, over the size of the group, as the
\* fraction num / den
rank_pct(frame) ==
    [i \in DOMAIN frame |->
        LET group == {j \in DOMAIN frame : frame[j].Tag = frame[i].Tag}
            less == {j \in group : frame[j].order < frame[i].order}
            same == {j \in group : frame[j].order = frame[i].order}
        IN  [num |-> 2 * Cardinality(less) + Cardinality(same) + 1,
             den |-> 2 * Cardinality(group)]]

\* line 117: df_filtered["order"] = ...
with_order(frame) == assign(frame, "order", cumcount(frame))

\* line 118: df_filtered["alpha"] = ...
with_alpha(frame) == assign(frame, "alpha", rank_pct(frame))

\* the sort of line 116 left out
fade_no_sort(frame) == {frame}

\* line 116: df_filtered = df_filtered.sort_values("Timestamp")
fade_sort(frame) == sort_values(frame, TRUE)

FadeEffect ==
    /\ pc = "fade"
    /\ \E sorted \in fade_sort(df_filtered) :
         df_filtered' = with_alpha(with_order(sorted))
    /\ pc' = "show_history"
    /\ UNCHANGED <<sheet, fetched, df_2nd, df_3rd, df_all, latest, floor_choice,
                   df, tag_choice, limit_choice, rendered>>

\* lines 120-166: st.plotly_chart(fig), sort descending, st.dataframe
ShowHistory ==
    /\ pc = "show_history"
    /\ df_filtered' \in sort_values(df_filtered, FALSE)
    /\ rendered' = rendered \o <<"plotly_chart history", "dataframe">>
    /\ pc' = "done"
    /\ UNCHANGED <<sheet, fetched, df_2nd, df_3rd, df_all, latest, floor_choice,
                   df, tag_choice, limit_choice>>

----------------------------------------------------------------------------
(* Between runs *)

\* a user interaction reruns the script from the top; nothing is kept
Rerun ==
    /\ pc = "done"
    /\ pc' = "load_2nd"
    /\ fetched' = <<>>
    /\ df_2nd' = <<>>
    /\ df_3rd' = <<>>
    /\ df_all' = <<>>
    /\ latest' = NoRow
    /\ floor_choice' = ""
    /\ df' = <<>>
    /\ tag_choice' = ""
    /\ limit_choice' = LimitAll
    /\ df_filtered' = <<>>
    /\ rendered' = <<>>
    /\ UNCHANGED sheet

TotalRows == Len(sheet["2nd"]) + Len(sheet["3rd"])

\* rows the sheets publish in full runs: all cells parse, the tag may be missing
RunRows ==
    [Tag : {"", "T1", "T2"}, X : {"5"}, Y : {"10"},
     Timestamp : {"2024-01-01 10:00", "2024-01-01 11:00"}]

\* the tracker appends a row to a sheet while the dashboard runs
SheetAppend ==
    /\ TotalRows < MaxRows
    /\ \E f \in CSV_URLS, r \in RunRows :
         sheet' = [sheet EXCEPT ![f] = Append(@, r)]
    /\ UNCHANGED <<pc, fetched, df_2nd, df_3rd, df_all, latest, floor_choice, df,
                   tag_choice, limit_choice, df_filtered, rendered>>

----------------------------------------------------------------------------
(* Inputs *)

RECURSIVE SeqsUpTo(_, _)
SeqsUpTo(S, n) ==
    IF n = 0 THEN {<<>>}
    ELSE LET shorter == SeqsUpTo(S, n - 1)
         IN  shorter \cup {Append(s, x) : s \in shorter, x \in S}

\* rows as the sheets may publish them: any of the columns may be missing
\* or unparseable
RawRows ==
    [Tag : {"", "T1"}, X : {"", "bad", "5"}, Y : {"bad", "10"},
     Timestamp : {"", "bad", "2024-01-01 10:00", "2024-01-01 11:00"}]

InitLoad ==
    /\ RunStart
    /\ \E rows \in SeqsUpTo(RawRows, MaxRawRows), withFloor \in BOOLEAN :
         LET published ==
               IF withFloor
               THEN [i \in DOMAIN rows |-> ("Floor" :> "1st") @@ rows[i]]
               ELSE rows
         IN  sheet = [f \in CSV_URLS |-> published]

NextLoad == Load2nd \/ Load3rd

SpecLoad == InitLoad /\ [][NextLoad]_vars

Init ==
    /\ RunStart
    /\ sheet \in {sh \in [CSV_URLS -> SeqsUpTo(RunRows, MaxRows)] :
                     Len(sh["2nd"]) + Len(sh["3rd"]) <= MaxRows}

Next ==
    \/ Load2nd
    \/ Load3rd
    \/ LatestPosition
    \/ ShowLatest
    \/ FloorViewer
    \/ Filtering(limit_options)
    \/ FadeEffect
    \/ ShowHistory
    \/ Rerun
    \/ SheetAppend

Spec == Init /\ [][Next]_vars

\* rows for the filter and the fade: three instants, two tags or none
ViewRows ==
    [Tag : {"", "T1", "T2"}, X : {"5"}, Y : {"10"},
     Timestamp : {"2024-01-01 10:00", "2024-01-01 11:00", "2024-01-01 12:00"}]

\* numeric limits small enough to cut bounded data, and "All"
ViewLimits == (1 .. MaxLimit) \cup {LimitAll}

InitView ==
    /\ RunStart
    /\ \E rows \in SeqsUpTo(ViewRows, MaxViewRows) :
         sheet = [f \in CSV_URLS |->
                    IF f = "2nd" THEN rows
                    ELSE <<[Tag |-> "T1", X |-> "12", Y |-> "10",
                            Timestamp |-> "2024-01-01 11:00"]>>]

NextView ==
    \/ Load2nd
    \/ Load3rd
    \/ LatestPosition
    \/ ShowLatest
    \/ FloorViewer
    \/ Filtering(ViewLimits)
    \/ FadeEffect
    \/ ShowHistory

SpecView == InitView /\ [][NextView]_vars

----------------------------------------------------------------------------
(* Properties *)

Columns == {"Tag", "X", "Y", "Timestamp", "Floor"}

\* a row without order and alpha
Data(r) == [c \in Columns |-> r[c]]

DataSeq(frame) == [i \in DOMAIN frame |-> Data(frame[i])]

\* how often the row r occurs in the frame
Count(frame, r) == Cardinality({i \in DOMAIN frame : Data(frame[i]) = r})

\* the same rows, each as often, in any order
SameRows(a, b) ==
    \A r \in Range(DataSeq(a)) \cup Range(DataSeq(b)) : Count(a, r) = Count(b, r)

Min(a, b) == IF a <= b THEN a ELSE b

\* the rows of a raw sheet whose X, Y and Timestamp are present and parse
ValidRows(rows) ==
    {i \in DOMAIN rows : /\ to_numeric(rows[i].X) # NaN
                         /\ to_numeric(rows[i].Y) # NaN
                         /\ rows[i].Timestamp # ""
                         /\ to_datetime(rows[i].Timestamp) # NaN}

\* out is the valid rows of `rows`, in their order, parsed and stamped with f
Sanitized(rows, f, out) ==
    LET valid == ValidRows(rows)
        \* the input row behind the k-th output row
        src(k) == CHOOSE i \in valid : Cardinality({j \in valid : j <= i}) = k
    IN  /\ Len(out) = Cardinality(valid)
        /\ \A k \in DOMAIN out :
             /\ out[k].Tag = rows[src(k)].Tag
             /\ out[k].X = to_numeric(rows[src(k)].X)
             /\ out[k].Y = to_numeric(rows[src(k)].Y)
             /\ out[k].Timestamp = to_datetime(rows[src(k)].Timestamp)
             /\ out[k].Floor = f
             /\ out[k].X # NaN /\ out[k].Y # NaN /\ out[k].Timestamp # NaN

\* C1: every load_data call returns exactly the rows of the fetched sheet
\* whose X, Y and Timestamp are present and parse, in input order, with Tag
\* kept, X, Y and Timestamp at their parsed values and Floor set to the sheet
\* name (whatever Floor the sheet had); no invalid row is in the output.
C1_LoadDataKeepsExactlyValidRows ==
    /\ (Len(fetched) >= 1 /\ fetched[1].ok)
          => Sanitized(fetched[1].rows, "2nd", df_2nd)
    /\ (Len(fetched) >= 2 /\ fetched[2].ok)
          => Sanitized(fetched[2].rows, "3rd", df_3rd)
    /\ (Len(fetched) >= 3 /\ fetched[3].ok)
          => Sanitized(fetched[3].rows, floor_choice, df)

\* C1 witness: a sheet with a Floor column whose first row has an invalid Y
\* and whose second row is valid has been loaded: one row, stamped "2nd"
C1_Witness ==
    /\ pc = "load_3rd"
    /\ Len(fetched[1].rows) = 2
    /\ "Floor" \in DOMAIN fetched[1].rows[1]
    /\ fetched[1].rows[1].Y = "bad"
    /\ fetched[1].rows[1].X = "5"
    /\ fetched[1].rows[1].Timestamp = "2024-01-01 10:00"
    /\ fetched[1].rows[2].Floor = "1st"
    /\ Len(df_2nd) = 1
    /\ df_2nd[1].Floor = "2nd"
    /\ df_2nd[1].Timestamp = 660

\* the filter has run and raised nothing: df_filtered is its result
Filtered == pc = "fade"

\* the rows of the frame with this tag
OfTag(frame, t) == SelectSeq(frame, LAMBDA r : r.Tag = t)

\* the proper tags of the loaded floor (a missing tag is none)
TagsOf(frame) == Range(unique(frame)) \ {""}

\* kept holds the n rows of the group with the greatest timestamps
LatestOf(group, kept, n) ==
    /\ Len(kept) = n
    /\ \A r \in Range(DataSeq(kept)) : Count(kept, r) <= Count(group, r)
    /\ \A r \in Range(DataSeq(group)) :
          Count(kept, r) < Count(group, r)
             => \A i \in DOMAIN kept : r.Timestamp <= kept[i].Timestamp

\* C2: with a numeric limit L the filter's result holds, of each tag it
\* selects (every tag for "All", the chosen tag otherwise), exactly the
\* min(L, n) rows with the greatest timestamps, n being the rows of that tag
\* in the floor's data, so never more than L and all of them when n < L;
\* with a specific tag chosen no row of another tag is in the result.
C2_LimitKeepsLatestPerTag ==
    (Filtered /\ limit_choice # LimitAll) =>
        /\ \A t \in TagsOf(df) :
              LET n == Len(OfTag(df, t))
              IN  IF tag_choice \in {"All", t}
                  THEN LatestOf(OfTag(df, t), OfTag(df_filtered, t),
                                Min(limit_choice, n))
                  ELSE Len(OfTag(df_filtered, t)) = 0
        /\ \A i \in DOMAIN df_filtered : df_filtered[i].Tag \in TagsOf(df)
        /\ tag_choice # "All"
              => \A i \in DOMAIN df_filtered : df_filtered[i].Tag = tag_choice

\* C2 witness: limit 1 and "All" on two rows of T1 (the later of them first
\* in the sheet) and one of T2: one row of each tag is kept, the later of T1
C2_Witness ==
    /\ Filtered
    /\ floor_choice = "2nd"
    /\ limit_choice = 1
    /\ tag_choice = "All"
    /\ Len(OfTag(df, "T1")) = 2
    /\ Len(OfTag(df, "T2")) = 1
    /\ df[1].Tag = "T1" /\ df[1].Timestamp = 720
    /\ Len(df_filtered) = 2
    /\ df_filtered[1].Timestamp = 720

\* C3: with tag "All" and limit "All" the filter's result is the loaded
\* floor's data: every row of df exactly once and nothing else, rows with a
\* missing Tag included.
C3_AllAllReturnsWholeFloor ==
    (Filtered /\ tag_choice = "All" /\ limit_choice = LimitAll)
        => SameRows(df_filtered, df)

\* the fade effect has run: df_filtered carries order and alpha
Faded == pc = "show_history"

\* the rows of df_filtered with the tag of row i
Group(i) == {j \in DOMAIN df_filtered : df_filtered[j].Tag = df_filtered[i].Tag}

GroupLatest(i) ==
    CHOOSE t \in {df_filtered[j].Timestamp : j \in Group(i)} :
        \A j \in Group(i) : df_filtered[j].Timestamp <= t

AlphaEq(a, b) == a.num * b.den = b.num * a.den
AlphaLeq(a, b) == a.num * b.den <= b.num * a.den
AlphaIsOne(a) == a.num = a.den

\* the alpha of row i computed from the rows of its tag alone
AlphaOfGroupAlone(i) ==
    LET alone == SelectSeq(df_filtered,
                           LAMBDA r : r.Tag = df_filtered[i].Tag)
        k == Cardinality({j \in Group(i) : j <= i})
    IN  rank_pct(alone)[k]

\* what C4 says of every row but the rows with the latest timestamp
AlphaDistinctInUnitInterval ==
    \A i \in DOMAIN df_filtered :
        LET a == df_filtered[i].alpha
        IN  /\ \A j \in Group(i) \ {i} : ~AlphaEq(a, df_filtered[j].alpha)
            /\ 0 < a.num /\ a.num <= a.den
            /\ Cardinality(Group(i)) = 1 => AlphaIsOne(a)
            /\ AlphaEq(a, AlphaOfGroupAlone(i))

\* C4 as stated: in every tag group the alphas are pairwise distinct and in
\* (0, 1], a group of one row has alpha 1, alpha depends on the rows of the
\* same tag only, and EVERY row holding the group's latest timestamp has the
\* group's maximum alpha, 1.
C4_EveryLatestRowHasAlphaOne ==
    Faded =>
        /\ AlphaDistinctInUnitInterval
        /\ \A i \in DOMAIN df_filtered :
              df_filtered[i].Timestamp = GroupLatest(i)
                 => /\ AlphaIsOne(df_filtered[i].alpha)
                    /\ \A j \in Group(i) :
                          AlphaLeq(df_filtered[j].alpha, df_filtered[i].alpha)

\* C4 amended: as above, but of the rows holding the group's latest
\* timestamp exactly ONE, the last of the group in the sorted frame, has the
\* group's maximum alpha, 1.
C4_OneLatestRowHasAlphaOne ==
    Faded =>
        /\ AlphaDistinctInUnitInterval
        /\ \A i \in DOMAIN df_filtered :
              LET ones == {j \in Group(i) : AlphaIsOne(df_filtered[j].alpha)}
                  last == CHOOSE j \in Group(i) : \A m \in Group(i) : m <= j
              IN  /\ ones = {last}
                  /\ df_filtered[last].Timestamp = GroupLatest(i)
                  /\ AlphaLeq(df_filtered[i].alpha, df_filtered[last].alpha)

\* C4 witness: two rows of T1 share the latest timestamp, one of them has
\* alpha 1/2 and the other 1, and a single row of T2 has alpha 1
C4_Witness ==
    /\ Faded
    /\ Len(df_filtered) = 3
    /\ \E i, j, k \in DOMAIN df_filtered :
         /\ df_filtered[i].Tag = "T1" /\ df_filtered[j].Tag = "T1"
         /\ df_filtered[i].Timestamp = df_filtered[j].Timestamp
         /\ df_filtered[i].alpha = [num |-> 2, den |-> 4]
         /\ df_filtered[j].alpha = [num |-> 4, den |-> 4]
         /\ df_filtered[k].Tag = "T2"
         /\ df_filtered[k].alpha = [num |-> 2, den |-> 2]

\* the latest position has been selected
LatestSelected == latest.Floor # ""

MaxTimestamp(frame) ==
    CHOOSE t \in {frame[i].Timestamp : i \in DOMAIN frame} :
        \A i \in DOMAIN frame : frame[i].Timestamp <= t

ErrorTexts == {st_error(e) : e \in {HTTPError, IndexError, TypeError, ValueError}}

ErrorsShown == {i \in DOMAIN rendered : rendered[i] \in ErrorTexts}

\* the run has shown the history chart and table
Completed ==
    /\ pc = "done"
    /\ Len(rendered) > 0
    /\ rendered[Len(rendered)] = "dataframe"

\* the history data of the chosen floor has been loaded
HistoryLoaded == Len(fetched) = 3 /\ fetched[3].ok

\* C6: when the chosen floor's data is empty (tag "All" is then the only
\* choice) the filter returns an empty frame and the run ends with the
\* history chart and table and no error message, whatever the limit.
C6_EmptyFloorRendersEmptyHistory ==
    (pc = "done" /\ HistoryLoaded /\ Len(df) = 0)
        => /\ Completed
           /\ ErrorsShown = {}
           /\ df_filtered = <<>>

FetchFailed == \E i \in DOMAIN fetched : ~fetched[i].ok

\* both floors loaded, the latest position selected from an empty frame
EmptyAtLatest ==
    /\ Len(fetched) >= 2
    /\ fetched[1].ok /\ fetched[2].ok
    /\ pc # "latest"
    /\ Len(df_2nd) + Len(df_3rd) = 0

\* the load_data calls made, by sheet
FetchedFloors == [i \in DOMAIN fetched |-> fetched[i].floor]

\* C7: when a load_data call fails to fetch, or the latest position is
\* selected from an empty frame, the run ends with exactly one error
\* message, carrying the error's description, as the last element shown
\* (nothing is rendered after the failure), and no load is made again; with
\* both floors empty the error is all the run shows.
C7_OneErrorThenNothing ==
    /\ Cardinality(ErrorsShown) <= 1
    /\ Len(fetched) <= 3
    /\ FetchedFloors = SubSeq(<<"2nd", "3rd", floor_choice>>, 1, Len(fetched))
    /\ FetchFailed =>
          /\ pc = "done"
          /\ ErrorsShown = {Len(rendered)}
          /\ rendered[Len(rendered)] = st_error(HTTPError)
          /\ \A i \in DOMAIN fetched : ~fetched[i].ok => i = Len(fetched)
          /\ "dataframe" \notin Range(rendered)
          /\ "plotly_chart history" \notin Range(rendered)
    /\ EmptyAtLatest =>
          /\ pc = "done"
          /\ Len(fetched) = 2
          /\ rendered = <<st_error(IndexError)>>

\* C7 witness: the history load fails after the latest position was shown
C7_Witness ==
    /\ pc = "done"
    /\ Len(fetched) = 3
    /\ ~fetched[3].ok
    /\ rendered = <<"title", "success", "plotly_chart latest", "divider",
                    "header", "radio", st_error(HTTPError)>>

\* the rows in ascending order of Timestamp
Ascending(frame) ==
    \A i, j \in DOMAIN frame : i < j => frame[i].Timestamp <= frame[j].Timestamp

\* order is the zero-based position of the row among the rows of its tag
OrderIsPositionInGroup(frame) ==
    \A i \in DOMAIN frame :
        frame[i].order =
            Cardinality({j \in DOMAIN frame : j < i /\ frame[j].Tag = frame[i].Tag})

FadeStep == pc = "fade" /\ pc' = "show_history"

\* C8 as stated: the fade effect hands on the filter's rows in the filter's
\* order (for "All": the per-tag blocks one after the other), each with its
\* order, the zero-based position in its tag group, and its alpha.
C8_FadeKeepsFilterOrder ==
    [][FadeStep =>
          /\ DataSeq(df_filtered') = DataSeq(df_filtered)
          /\ OrderIsPositionInGroup(df_filtered')
          /\ \A i \in DOMAIN df_filtered' : "alpha" \in DOMAIN df_filtered'[i]]_vars

\* C8 amended: the fade effect hands on exactly the filter's rows, none
\* lost, added or repeated, but sorted ascending by timestamp over all tags
\* together, each with its order, the zero-based position in its tag group
\* in that sorted frame, and its alpha.
C8_FadeSortsFilterOutput ==
    [][FadeStep =>
          /\ Len(df_filtered') = Len(df_filtered)
          /\ SameRows(df_filtered', df_filtered)
          /\ Ascending(df_filtered')
          /\ OrderIsPositionInGroup(df_filtered')
          /\ \A i \in DOMAIN df_filtered' : "alpha" \in DOMAIN df_filtered'[i]]_vars

\* C8 witness: after the fade effect on "All" a row of T2 stands between two
\* rows of T1, which the filter had put in one block
C8_Witness ==
    /\ Faded
    /\ tag_choice = "All"
    /\ Len(df_filtered) = 3
    /\ df_filtered[1].Tag = "T1" /\ df_filtered[1].Timestamp = 600
    /\ df_filtered[2].Tag = "T2" /\ df_filtered[2].Timestamp = 660
    /\ df_filtered[3].Tag = "T1" /\ df_filtered[3].Timestamp = 720
    /\ df_filtered[3].order = 1

\* how often the sheet was requested in this run
Fetches(f) == Cardinality({i \in DOMAIN fetched : fetched[i].floor = f})

FirstFetchOfChoice == fetched[IF floor_choice = "2nd" THEN 1 ELSE 2].rows

AllTagged(rows) == \A i \in DOMAIN rows : rows[i].Tag # ""

\* the user looks at the history of the latest row: its floor, limit "All",
\* tag "All" or its tag
LatestInView ==
    /\ Filtered
    /\ floor_choice = latest.Floor
    /\ limit_choice = LimitAll
    /\ tag_choice \in {"All", latest.Tag}

LatestInHistory ==
    /\ \E i \in DOMAIN df_filtered : Data(df_filtered[i]) = Data(latest)
    /\ \A i \in DOMAIN df_filtered : df_filtered[i].Timestamp <= latest.Timestamp

\* C10: when the chosen floor's sheet gave the same rows to both loads of
\* the run, every row tagged, and the user looks at the floor of the latest
\* row with limit "All" and tag "All" or that row's tag, the latest row is
\* in the filter's result and no row of the result is later.
C10_LatestRowIsInItsHistory ==
    (LatestInView /\ fetched[3].rows = FirstFetchOfChoice
                  /\ AllTagged(fetched[1].rows) /\ AllTagged(fetched[2].rows))
        => LatestInHistory

\* C10 witness: the latest row is T1's on the 2nd floor, T2 has a row
\* there too, the user picks T1, and the result is the latest row alone
C10_Witness ==
    /\ LatestInView
    /\ fetched[3].rows = FirstFetchOfChoice
    /\ AllTagged(fetched[1].rows) /\ AllTagged(fetched[2].rows)
    /\ floor_choice = "2nd"
    /\ tag_choice = "T1"
    /\ Len(df) = 2
    /\ df[1].Tag = "T2" /\ df[1].Timestamp = 600
    /\ df_filtered = <<latest>>

\* C10, second half: without the premise that both loads got the same rows
\* the statement does not hold (a row appended between the loads is later
\* than the latest row shown)
C10_EvenWhenSheetChanged ==
    (LatestInView /\ AllTagged(fetched[1].rows) /\ AllTagged(fetched[2].rows)
                  /\ AllTagged(fetched[3].rows))
        => LatestInHistory

====
